---- MODULE Spec2Model ----
(***************************************************************************)
(* eventcpp: event<TRet(Args...)>, a registry of invokables (free          *)
(* functions and methods bound to a receiver) kept in a                    *)
(* std::unordered_set keyed by InvokableHasher / InvokableComparator, and  *)
(* the call operator that dispatches to every stored invokable.            *)
(*                                                                         *)
(* The model follows the last revision of the header (include guard        *)
(* EVENTCPP_EVENT_HPP).  One channel is modelled: event<void ()> or        *)
(* event<int (int)> as in the tests and the README, or a channel whose     *)
(* argument is a std::string passed by value.                              *)
(***************************************************************************)
EXTENDS Integers, Sequences, FiniteSets, TLC

\* Number of attach/detach calls made on the channel in one behaviour.
MaxOps == 3

\* Modelled width of size_t in bits (64 in the build, narrowed here).
HashBits == 8

HashMod == 2 ^ HashBits

(***************************************************************************)
(* Function and method pointers are their raw representation, least        *)
(* significant byte first.  Every modelled pointer is a canonical address  *)
(* whose top byte is zero.  Sub is virtual (Itanium representation         *)
(* 1 + vtable offset); the others are code addresses.                      *)
(***************************************************************************)
NullPtr == <<0, 0, 0>>

Mul2 == <<16, 65, 0>>

Add2 == <<0, 66, 0>>

Triple == <<0, 67, 0>>

Sub == <<1, 0, 0>>

Div == <<0, 68, 0>>

\* A second non-virtual method of the receiver's class, at another address
\* whose low byte is zero.
Mod == <<0, 69, 0>>

\* Addresses of the receiver objects: a2 is an A, b2 is a B.
ObjA == 8

ObjB == 16

FuncPtrs == {NullPtr, Mul2, Add2, Triple}

\* (method, receiver) pairs the caller can name: Sub is declared on the base
\* of A and B, Div on B only.
BoundPairs == {<<Sub, ObjA>>, <<Sub, ObjB>>, <<Div, ObjB>>}

\* (method, receiver pointer) pairs passed to the overloads of attach and
\* detach that take the receiver by pointer; the pointer can be null.
PointerPairs == {<<Sub, ObjB>>, <<Div, ObjB>>, <<Mod, ObjB>>, <<Div, 0>>}

\* Arguments the caller passes to the call operator of event<int (int)>;
\* event<void ()> takes none, written 0.
ArgValues == {4, 8}

\* The std::string a caller passes to a channel that takes one by value, and
\* what a std::string can hold after it was moved from: valid but
\* unspecified, empty or left as it was.
StringValues == {<<97, 98>>}

MovedFrom(x) == {<<>>, x}

\* Values an int that was never written can turn out to hold when read.
Indeterminate == {0, 7}

VARIABLES
    retType,      \* TRet of the channel: "void" or "int"
    argType,      \* Args of the channel: "none", "int" or "string"
    _invokables,  \* the registry, in the container's iteration order
    pc,           \* "idle", or "dispatch" inside the call operator
    it,           \* position of the range-for iterator
    args,         \* the argument of the dispatch in progress or last finished
    ret,          \* the local `ret` of the non-void call operator
    calls,        \* subscriber bodies run by that dispatch, in order
    outcome,      \* how the last call operator ended: "none", "returned", "threw"
    result,       \* what it returned to the caller
    previous,     \* what the call operator before that one returned, and for
                  \* which argument, if the registry was not touched since
    snapshot,     \* the registry as it was when that dispatch started
    history       \* the attach/detach calls made so far, in order

vars ==
    <<retType, argType, _invokables, pc, it, args, ret, calls, outcome, result,
      previous, snapshot, history>>

----------------------------------------------------------------------------
(* details::invokable_func / details::invokable_member                     *)

invokable_func(func) == [kind |-> "func", func |-> func, obj |-> 0]

invokable_member(func, obj) == [kind |-> "member", func |-> func, obj |-> obj]

Callables ==
    {invokable_func(f) : f \in FuncPtrs}
        \cup {invokable_member(p[1], p[2]) : p \in BoundPairs}

\* std::string(const char*) over the bytes of _func: the bytes before the
\* first zero byte.
RECURSIVE CString(_)
CString(bytes) ==
    IF bytes = <<>> \/ Head(bytes) = 0
    THEN <<>>
    ELSE <<Head(bytes)>> \o CString(Tail(bytes))

get_func_ptr(inv) == CString(inv.func)

\* Variant: a bound invokable reports the sentinel receiver as well.
get_obj_ptr_always_sentinel(inv) == 0

get_obj_ptr(inv) == IF inv.kind = "func" THEN 0 ELSE inv.obj

RECURSIVE BitXor(_, _)
BitXor(a, b) ==
    IF a = 0 THEN b
    ELSE IF b = 0 THEN a
    ELSE ((a + b) % 2) + 2 * BitXor(a \div 2, b \div 2)

\* std::hash<std::string>: FNV-1a over the bytes, at the modelled width.
RECURSIVE StringHash(_, _)
StringHash(h, s) ==
    IF s = <<>> THEN h
    ELSE StringHash((BitXor(h, Head(s) % HashMod) * 179) % HashMod, Tail(s))

\* std::hash<uintptr_t>: the value itself.
PointerHash(p) == p % HashMod

get_hash(inv) ==
    LET func_hash == StringHash(37, get_func_ptr(inv))
        obj_hash == PointerHash(get_obj_ptr(inv))
    IN  IF inv.kind = "func"
        THEN func_hash
        ELSE BitXor(func_hash,
                    (obj_hash + (31161 % HashMod) + (func_hash * 64)
                        + (func_hash \div 4)) % HashMod)

operator_ne(lhs, rhs) ==
    get_func_ptr(lhs) # get_func_ptr(rhs) /\ get_obj_ptr(lhs) # get_obj_ptr(rhs)

operator_eq(lhs, rhs) ==
    get_func_ptr(lhs) = get_func_ptr(rhs) /\ get_obj_ptr(lhs) = get_obj_ptr(rhs)

InvokableHasher(inv) == get_hash(inv)

\* Variant: a comparator that is true for equal keys.
InvokableComparator_by_key(lhs, rhs) == operator_eq(lhs, rhs)

InvokableComparator(lhs, rhs) == operator_ne(lhs, rhs)

----------------------------------------------------------------------------
(* The subscribers of the README and of the tests, as functions of their   *)
(* argument.  A::Sub and B::Sub override the virtual Abs::Sub.             *)

Subscriber(inv, x) ==
    CASE inv.func = Mul2 -> x * 2
      [] inv.func = Add2 -> x + 2
      [] inv.func = Triple -> x * 3
      [] inv.func = Sub /\ inv.obj = ObjA -> x - 2
      [] inv.func = Sub /\ inv.obj = ObjB -> x - 3
      [] inv.func = Div -> x \div 2
      [] inv.func = Mod -> x % 2

\* invokable_func::operator() / invokable_member::operator(): the null checks.
bad_function_call(inv) ==
    \/ inv.func = NullPtr
    \/ inv.kind = "member" /\ inv.obj = 0

\* The outcomes of the test `_func == nullptr || &_obj == nullptr`.  &_obj is
\* the address of a reference: a null receiver got there through *obj on a
\* null pointer, which is undefined, and a build either keeps the comparison
\* or takes it for always false.
null_test(inv) ==
    IF inv.func = NullPtr THEN {TRUE}
    ELSE IF inv.kind = "member" /\ inv.obj = 0 THEN {TRUE, FALSE}
    ELSE {FALSE}

\* The caller's argument object after std::forward<Args>(args)... handed it to
\* one callable: a by-value std::string parameter is move-constructed from
\* it, an int is copied.
forward(type, x) == IF type = "string" THEN MovedFrom(x) ELSE {x}

\* Variant: the argument is not forwarded to the wrapped callable.
invokable_call_dropped_argument(inv, x) == Subscriber(inv, 0)

\* ... and the call itself: std::invoke(_func, [_obj,] std::forward<Args>(args)...).
invokable_call(inv, x) == Subscriber(inv, x)

----------------------------------------------------------------------------
(* std::unordered_set<shared_ptr<TInvokable>, InvokableHasher,             *)
(* InvokableComparator>.  The iteration order and the bucket an element    *)
(* lands in are the library's choice: emplace compares the new element     *)
(* with the stored elements of its bucket, which hold every stored element *)
(* of equal hash and any others the bucket count maps there (a library     *)
(* that keeps the hash code in the node compares only elements of equal    *)
(* hash; one that does not compares the whole bucket).  A new element may  *)
(* appear anywhere in the iteration order; erase keeps the order of the    *)
(* others.                                                                 *)

InsertAt(s, pos, inv) == SubSeq(s, 1, pos - 1) \o <<inv>> \o SubSeq(s, pos, Len(s))

erase(s, i) == SubSeq(s, 1, i - 1) \o SubSeq(s, i + 1, Len(s))

\* The positions emplace may compare inv with: at least the stored elements
\* of equal hash, at most all of them.  emplace only asks whether some
\* compared element is key-equal, so a bucket between the two gives the
\* result of one of them.
Buckets(s, inv) ==
    LET h == InvokableHasher(inv)
    IN  {{i \in 1..Len(s) : InvokableHasher(s[i]) = h}, 1..Len(s)}

\* Variant: the new element takes the place of a stored one.
emplace_overwriting(s, inv, bucket, pos) ==
    IF s = <<>> THEN <<inv>>
    ELSE [s EXCEPT ![IF pos > Len(s) THEN Len(s) ELSE pos] = inv]

emplace(s, inv, bucket, pos) ==
    IF \E i \in bucket : InvokableComparator(s[i], inv)
    THEN s
    ELSE InsertAt(s, pos, inv)

\* std::find_if(begin, end, *element == invokable); Len(s) + 1 is end().
find_if(s, inv) ==
    IF \E i \in 1..Len(s) : operator_eq(s[i], inv)
    THEN CHOOSE i \in 1..Len(s) :
            /\ operator_eq(s[i], inv)
            /\ \A j \in 1..(i - 1) : ~operator_eq(s[j], inv)
    ELSE Len(s) + 1

remove(s, inv) ==
    LET i == find_if(s, inv)
    IN  IF i # Len(s) + 1 THEN erase(s, i) ELSE s

----------------------------------------------------------------------------
Unset == [init |-> FALSE, val |-> 0]

NoPrevious == [set |-> FALSE, args |-> 0, val |-> 0]

\* <<TRet, Args>> of the channels of the tests and the README ...
Signatures == {<<"void", "none">>, <<"int", "int">>}

\* ... and of a channel whose subscribers take a std::string by value.
SignaturesByValue == Signatures \cup {<<"void", "string">>}

event(signatures) ==
    /\ \E sig \in signatures : retType = sig[1] /\ argType = sig[2]
    /\ _invokables = <<>>
    /\ pc = "idle"
    /\ it = 1
    /\ args = 0
    /\ ret = Unset
    /\ calls = <<>>
    /\ outcome = "none"
    /\ result = Unset
    /\ previous = NoPrevious
    /\ snapshot = <<>>
    /\ history = <<>>

Init == event(Signatures)

\* attach and detach are called between dispatches; what the last dispatch
\* showed is forgotten once the registry is touched.
Registry(op, inv, store) ==
    /\ _invokables' = store
    /\ history' = Append(history, [op |-> op, inv |-> inv])
    /\ it' = 1
    /\ args' = 0
    /\ ret' = Unset
    /\ calls' = <<>>
    /\ outcome' = "none"
    /\ result' = Unset
    /\ previous' = NoPrevious
    /\ snapshot' = <<>>
    /\ UNCHANGED <<retType, argType, pc>>

attach(inv) ==
    \E bucket \in Buckets(_invokables, inv), pos \in 1..(Len(_invokables) + 1) :
        Registry("attach", inv, emplace(_invokables, inv, bucket, pos))

detach(inv) == Registry("detach", inv, remove(_invokables, inv))

\* The caller may touch the registry: no dispatch is running.
CanMutate == pc = "idle" /\ Len(history) < MaxOps

attach_func ==
    /\ CanMutate
    /\ \E func \in FuncPtrs : attach(invokable_func(func))

attach_member ==
    /\ CanMutate
    /\ \E p \in BoundPairs : attach(invokable_member(p[1], p[2]))

detach_func ==
    /\ CanMutate
    /\ \E func \in FuncPtrs : detach(invokable_func(func))

detach_member ==
    /\ CanMutate
    /\ \E p \in BoundPairs : detach(invokable_member(p[1], p[2]))

\* attach(func, TClass* obj) { attach(func, *obj); }
attach_member_ptr ==
    /\ CanMutate
    /\ \E p \in PointerPairs : attach(invokable_member(p[1], p[2]))

\* detach(func, TClass* obj) { detach(func, *obj); }
detach_member_ptr ==
    /\ CanMutate
    /\ \E p \in PointerPairs : detach(invokable_member(p[1], p[2]))

\* What a caller can pass to a channel of the given Args.
CallerArgs(type) ==
    CASE type = "int" -> ArgValues
      [] type = "string" -> StringValues
      [] OTHER -> {0}

\* Variant: the container is rehashed on entry, which rotates its iteration
\* order.
call_begin_rehashing ==
    /\ pc = "idle"
    /\ \E x \in CallerArgs(argType) :
        /\ pc' = "dispatch"
        /\ it' = 1
        /\ args' = x
        /\ ret' = Unset
        /\ calls' = <<>>
        /\ outcome' = "none"
        /\ result' = Unset
        /\ previous' = IF outcome = "returned" /\ retType = "int"
                       THEN [set |-> TRUE, args |-> args, val |-> result.val]
                       ELSE NoPrevious
        /\ snapshot' = _invokables
        /\ _invokables' = IF _invokables = <<>> THEN <<>>
                          ELSE Append(Tail(_invokables), Head(_invokables))
        /\ UNCHANGED <<retType, argType, history>>

\* operator(): entry, `ret` declared without an initialiser.  The caller
\* still holds what the call before returned.
call_begin ==
    /\ pc = "idle"
    /\ \E x \in CallerArgs(argType) :
        /\ pc' = "dispatch"
        /\ it' = 1
        /\ args' = x
        /\ ret' = Unset
        /\ calls' = <<>>
        /\ outcome' = "none"
        /\ result' = Unset
        /\ previous' = IF outcome = "returned" /\ retType = "int"
                       THEN [set |-> TRUE, args |-> args, val |-> result.val]
                       ELSE NoPrevious
        /\ snapshot' = _invokables
        /\ UNCHANGED <<retType, argType, _invokables, history>>

\* Variant: the results are summed instead of overwritten.
assign_ret_accumulating(old, val) == [init |-> TRUE, val |-> old.val + val]

\* The value kept in `ret` after one subscriber returned val.
assign_ret(old, val) == [init |-> TRUE, val |-> val]

\* Variant: the loop stops before the last element.
at_end_one_early(i, s) == i >= Len(s)

\* The range-for's iterator has reached end().
at_end(i, s) == i > Len(s)

\* Variant: a failing invokable is skipped and the loop goes on.
call_next_catching ==
    /\ pc = "dispatch"
    /\ ~at_end(it, _invokables)
    /\ LET inv == _invokables[it]
       IN  \E throws \in null_test(inv), left \in forward(argType, args) :
            IF throws
            THEN /\ it' = it + 1
                 /\ UNCHANGED <<pc, outcome, args, ret, calls>>
            ELSE /\ calls' = Append(calls, [inv |-> inv, arg |-> args])
                 /\ ret' = IF retType = "int"
                           THEN assign_ret(ret, invokable_call(inv, args))
                           ELSE ret
                 /\ args' = left
                 /\ it' = it + 1
                 /\ UNCHANGED <<pc, outcome>>
    /\ UNCHANGED <<retType, argType, _invokables, result, previous, snapshot,
                   history>>

\* Variant: a subscriber is dropped from the registry once it was called.
call_next_one_shot ==
    /\ pc = "dispatch"
    /\ ~at_end(it, _invokables)
    /\ LET inv == _invokables[it]
       IN  \E throws \in null_test(inv), left \in forward(argType, args) :
            IF throws
            THEN /\ pc' = "idle"
                 /\ outcome' = "threw"
                 /\ UNCHANGED <<it, args, ret, calls, _invokables>>
            ELSE /\ calls' = Append(calls, [inv |-> inv, arg |-> args])
                 /\ ret' = IF retType = "int"
                           THEN assign_ret(ret, invokable_call(inv, args))
                           ELSE ret
                 /\ args' = left
                 /\ _invokables' = erase(_invokables, it)
                 /\ UNCHANGED <<pc, outcome, it>>
    /\ UNCHANGED <<retType, argType, result, previous, snapshot, history>>

\* Variant: the call moves the function pointer out of the invokable.
call_next_clearing ==
    /\ pc = "dispatch"
    /\ ~at_end(it, _invokables)
    /\ LET inv == _invokables[it]
       IN  \E throws \in null_test(inv), left \in forward(argType, args) :
            IF throws
            THEN /\ pc' = "idle"
                 /\ outcome' = "threw"
                 /\ UNCHANGED <<it, args, ret, calls, _invokables>>
            ELSE /\ calls' = Append(calls, [inv |-> inv, arg |-> args])
                 /\ ret' = IF retType = "int"
                           THEN assign_ret(ret, invokable_call(inv, args))
                           ELSE ret
                 /\ args' = left
                 /\ it' = it + 1
                 /\ _invokables' = [_invokables EXCEPT ![it].func = NullPtr]
                 /\ UNCHANGED <<pc, outcome>>
    /\ UNCHANGED <<retType, argType, result, previous, snapshot, history>>

\* One turn of the range-for: call the invokable under the iterator.  An
\* exception leaves the call operator at once.
call_next ==
    /\ pc = "dispatch"
    /\ ~at_end(it, _invokables)
    /\ LET inv == _invokables[it]
       IN  \E throws \in null_test(inv), left \in forward(argType, args) :
            IF throws
            THEN /\ pc' = "idle"
                 /\ outcome' = "threw"
                 /\ UNCHANGED <<it, args, ret, calls>>
            ELSE /\ calls' = Append(calls, [inv |-> inv, arg |-> args])
                 /\ ret' = IF retType = "int"
                           THEN assign_ret(ret, invokable_call(inv, args))
                           ELSE ret
                 /\ args' = left
                 /\ it' = it + 1
                 /\ UNCHANGED <<pc, outcome>>
    /\ UNCHANGED <<retType, argType, _invokables, result, previous, snapshot,
                   history>>

\* Where the range-for's iterator stands after the body of the element at
\* position i erased the element at position j (found is FALSE when nothing
\* was erased) and the loop incremented it; n is the length afterwards.
\* Erasing another element leaves the iterator on its node.  Erasing the
\* node under the iterator leaves it dangling, and the increment can land
\* anywhere.
next_after_erase(i, j, found, n) ==
    IF ~found THEN {i + 1}
    ELSE IF j < i THEN {i}
    ELSE IF j > i THEN {i + 1}
    ELSE 1..(n + 1)

\* Where it stands after the body inserted an element at position p (none if
\* inserted is FALSE).  Without a rehash the iterator stays on its node; a
\* rehash invalidates it.
next_after_emplace(i, p, inserted, n) ==
    IF ~inserted THEN {i + 1}
    ELSE 1..(n + 1)

\* One turn of the range-for in which the subscriber called detaches a
\* function from the channel that is calling it.
call_next_detaching ==
    /\ pc = "dispatch"
    /\ Len(history) < MaxOps
    /\ ~at_end(it, _invokables)
    /\ ~bad_function_call(_invokables[it])
    /\ \E func \in FuncPtrs :
        LET cur == _invokables[it]
            inv == invokable_func(func)
            j == find_if(_invokables, inv)
            found == j # Len(_invokables) + 1
            store == remove(_invokables, inv)
        IN  /\ calls' = Append(calls, [inv |-> cur, arg |-> args])
            /\ ret' = IF retType = "int"
                      THEN assign_ret(ret, invokable_call(cur, args))
                      ELSE ret
            /\ _invokables' = store
            /\ history' = Append(history, [op |-> "detach", inv |-> inv])
            /\ it' \in next_after_erase(it, j, found, Len(store))
    /\ UNCHANGED <<retType, argType, pc, args, outcome, result, previous, snapshot>>

\* One turn of the range-for in which the subscriber called attaches a
\* function to the channel that is calling it.
call_next_attaching ==
    /\ pc = "dispatch"
    /\ Len(history) < MaxOps
    /\ ~at_end(it, _invokables)
    /\ ~bad_function_call(_invokables[it])
    /\ \E func \in FuncPtrs :
        LET cur == _invokables[it]
            inv == invokable_func(func)
        IN  \E bucket \in Buckets(_invokables, inv), pos \in 1..(Len(_invokables) + 1) :
            LET store == emplace(_invokables, inv, bucket, pos)
                inserted == Len(store) # Len(_invokables)
            IN  /\ calls' = Append(calls, [inv |-> cur, arg |-> args])
                /\ ret' = IF retType = "int"
                          THEN assign_ret(ret, invokable_call(cur, args))
                          ELSE ret
                /\ _invokables' = store
                /\ history' = Append(history, [op |-> "attach", inv |-> inv])
                /\ it' \in next_after_emplace(it, pos, inserted, Len(store))
    /\ UNCHANGED <<retType, argType, pc, args, outcome, result, previous, snapshot>>

\* Variant: a dispatch that found no subscriber ends with an error.
call_return_rejecting_empty ==
    /\ pc = "dispatch"
    /\ at_end(it, _invokables)
    /\ pc' = "idle"
    /\ outcome' = IF Len(_invokables) = 0 THEN "threw" ELSE "returned"
    /\ IF retType = "int"
       THEN IF ret.init
            THEN result' = ret
            ELSE \E v \in Indeterminate : result' = [init |-> FALSE, val |-> v]
       ELSE result' = result
    /\ UNCHANGED <<retType, argType, _invokables, it, args, ret, calls, previous,
                   snapshot, history>>

\* Variant: at the end of the container the loop starts over.
call_return_restarting ==
    /\ pc = "dispatch"
    /\ at_end(it, _invokables)
    /\ it' = 1
    /\ calls' = <<>>
    /\ ret' = Unset
    /\ UNCHANGED <<retType, argType, _invokables, pc, args, outcome, result,
                   previous, snapshot, history>>

\* The loop is over: return (ret for a non-void channel).
call_return ==
    /\ pc = "dispatch"
    /\ at_end(it, _invokables)
    /\ pc' = "idle"
    /\ outcome' = "returned"
    /\ IF retType = "int"
       THEN IF ret.init
            THEN result' = ret
            ELSE \E v \in Indeterminate : result' = [init |-> FALSE, val |-> v]
       ELSE result' = result
    /\ UNCHANGED <<retType, argType, _invokables, it, args, ret, calls, previous,
                   snapshot, history>>

Next ==
    \/ attach_func
    \/ attach_member
    \/ detach_func
    \/ detach_member
    \/ call_begin
    \/ call_next
    \/ call_return

Spec == Init /\ [][Next]_vars

\* The same channel used through the overloads that take the receiver by
\* pointer, with the methods of one class; it may also be one that takes a
\* std::string by value.
InitPtr == event(SignaturesByValue)

NextPtr ==
    \/ attach_member_ptr
    \/ detach_member_ptr
    \/ call_begin
    \/ call_next
    \/ call_return

SpecPtr == InitPtr /\ [][NextPtr]_vars

\* The call operator runs on the caller's thread: once entered, the loop
\* takes its next turn and the function returns when the loop is over.
Fairness == WF_vars(call_next) /\ WF_vars(call_return)

\* The channel with free functions as subscribers, none of which touches it.
NextFunc ==
    \/ attach_func
    \/ detach_func
    \/ call_begin
    \/ call_next
    \/ call_return

SpecFuncFair == Init /\ [][NextFunc]_vars /\ Fairness

\* The channel with free functions as subscribers, some of which attach to
\* or detach from the channel while it is dispatching to them.
NextReentrant ==
    \/ attach_func
    \/ detach_func
    \/ call_begin
    \/ call_next
    \/ call_next_detaching
    \/ call_next_attaching
    \/ call_return

SpecReentrant == Init /\ [][NextReentrant]_vars

----------------------------------------------------------------------------
(* What the properties below read.                                         *)

\* A call operator has finished and the registry was not touched since.
Done == pc = "idle" /\ outcome # "none"

Returned == pc = "idle" /\ outcome = "returned"

\* How many times the finished dispatch ran the body of inv.
CallCount(inv) == Cardinality({k \in 1..Len(calls) : calls[k].inv = inv})

Stored(inv) == \E i \in 1..Len(_invokables) : _invokables[i] = inv

Op(op, inv) == [op |-> op, inv |-> inv]

\* The last n attach/detach calls are exactly ops.
EndsWith(ops) ==
    /\ Len(history) >= Len(ops)
    /\ SubSeq(history, Len(history) - Len(ops) + 1, Len(history)) = ops

FreeFunctions == {invokable_func(f) : f \in FuncPtrs \ {NullPtr}}

\* attach and detach were only ever called with functions, never with nullptr.
NoNullInHistory == \A i \in 1..Len(history) : history[i].inv.func # NullPtr

\* Only attach was called, each time with another free function.
OnlyDistinctFreeAttached ==
    \A i \in 1..Len(history) :
        /\ history[i].op = "attach"
        /\ history[i].inv \in FreeFunctions
        /\ \A j \in 1..Len(history) : j # i => history[j].inv # history[i].inv

----------------------------------------------------------------------------
\* C1 (fan-out): on a channel whose whole history is the attach of N pairwise
\* distinct free functions, a dispatch returns after exactly N subscriber
\* calls, one to each attached function, each with the caller's argument.
C1_FanOut ==
    (Done /\ OnlyDistinctFreeAttached) =>
        /\ outcome = "returned"
        /\ Len(calls) = Len(history)
        /\ \A i \in 1..Len(history) : CallCount(history[i].inv) = 1
        /\ \A k \in 1..Len(calls) : calls[k].arg = args

C1_Witness ==
    /\ Done
    /\ OnlyDistinctFreeAttached
    /\ Len(history) = 3
    /\ Len(calls) = 3

\* C2 (idempotent attach): after attach(f); attach(f) of one free function f
\* a dispatch calls f exactly once.
C2_IdempotentAttach ==
    \A f \in FreeFunctions :
        (Returned /\ history = <<Op("attach", f), Op("attach", f)>>) =>
            CallCount(f) = 1

\* C3 (detach precision): when the last two registry calls were attach(f)
\* and then detach(f), for a free function f, a dispatch does not call f.
C3_DetachPrecision ==
    \A f \in FreeFunctions :
        (Done /\ NoNullInHistory /\ EndsWith(<<Op("attach", f), Op("detach", f)>>)) =>
            CallCount(f) = 0

\* The identity of a callable: its function pointer and its receiver.
SameIdentity(a, b) == a.func = b.func /\ a.obj = b.obj

\* C4 (detach of an absent identity): a detach of a callable whose identity
\* no stored entry has leaves the registry as it was.
C4_DetachAbsentIsNoOp ==
    [][\A inv \in Callables :
          ( /\ history' = Append(history, Op("detach", inv))
            /\ NoNullInHistory'
            /\ \A i \in 1..Len(_invokables) : ~SameIdentity(_invokables[i], inv) )
          => _invokables' = _invokables]_vars

\* C5 (bound-identity distinctness): after attach(m, o1); attach(m, o2) with
\* o1 # o2 a dispatch that returns has called m on both receivers; after a
\* following detach(m, o1) it has called m on o2 and not on o1.
C5_BoundIdentity ==
    \A o1, o2 \in {ObjA, ObjB} :
        LET s1 == invokable_member(Sub, o1)
            s2 == invokable_member(Sub, o2)
        IN  (o1 # o2 /\ Returned /\ NoNullInHistory) =>
                /\ EndsWith(<<Op("attach", s1), Op("attach", s2)>>) =>
                       (CallCount(s1) >= 1 /\ CallCount(s2) >= 1)
                /\ EndsWith(<<Op("attach", s1), Op("attach", s2), Op("detach", s1)>>) =>
                       (CallCount(s2) >= 1 /\ CallCount(s1) = 0 /\ Stored(s2))

\* C6 (last-writer aggregation): a dispatch of a non-void channel that ran
\* at least one subscriber and returned hands the caller the value returned
\* by the last subscriber it ran, which is the last one in iteration order.
C6_LastWriter ==
    (Returned /\ retType = "int" /\ Len(_invokables) >= 1) =>
        /\ Len(calls) = Len(_invokables)
        /\ calls[Len(calls)].inv = _invokables[Len(_invokables)]
        /\ result = [init |-> TRUE,
                     val |-> Subscriber(calls[Len(calls)].inv, calls[Len(calls)].arg)]

\* Sum of the values the subscribers of the finished dispatch returned.
RECURSIVE SumOfResults(_)
SumOfResults(k) ==
    IF k = 0 THEN 0
    ELSE Subscriber(calls[k].inv, calls[k].arg) + SumOfResults(k - 1)

C6_Witness ==
    /\ Returned
    /\ retType = "int"
    /\ Len(calls) = 3
    /\ result.val = Subscriber(_invokables[3], args)
    /\ result.val # Subscriber(_invokables[1], args)
    /\ result.val # SumOfResults(Len(calls))

\* C7 (single subscriber): a non-void channel holding exactly one subscriber
\* g returns g(x) to a caller that passed x.
C7_SingleSubscriber ==
    (Done /\ retType = "int" /\ Len(_invokables) = 1
        /\ ~bad_function_call(_invokables[1])) =>
        /\ outcome = "returned"
        /\ result = [init |-> TRUE, val |-> Subscriber(_invokables[1], args)]

C7_Witness ==
    /\ Returned
    /\ retType = "int"
    /\ _invokables = <<invokable_member(Sub, ObjB)>>
    /\ args = 8
    /\ result = [init |-> TRUE, val |-> 5]

C9_FailFast ==
    (Done /\ Len(_invokables) = 3
        /\ ~bad_function_call(_invokables[1])
        /\ bad_function_call(_invokables[2])) =>
        /\ outcome = "threw"
        /\ calls = <<[inv |-> _invokables[1], arg |-> args]>>

C9_Witness ==
    /\ Done
    /\ Len(_invokables) = 3
    /\ ~bad_function_call(_invokables[1])
    /\ bad_function_call(_invokables[2])
    /\ ~bad_function_call(_invokables[3])
    /\ _invokables[3] # _invokables[1]
    /\ outcome = "threw"
    /\ Len(calls) = 1

\* C10 (empty dispatch, non-void): the call operator of a non-void channel
\* without subscribers raises an error or returns a value that was set.
C10_EmptyDispatchDefined ==
    (Done /\ retType = "int" /\ Len(_invokables) = 0) =>
        (outcome = "threw" \/ result.init)

\* C11 (empty dispatch, void): the call operator of a void channel without
\* subscribers, fresh or emptied by detach, returns without an error and
\* without having run any subscriber.
C11_EmptyDispatchVoid ==
    (Done /\ retType = "void" /\ Len(_invokables) = 0) =>
        /\ outcome = "returned"
        /\ calls = <<>>

\* The channel was emptied by a detach before the dispatch.
C11_Witness ==
    /\ Returned
    /\ retType = "void"
    /\ _invokables = <<>>
    /\ history = <<Op("attach", invokable_func(Mul2)), Op("detach", invokable_func(Mul2))>>
    /\ calls = <<>>

\* C12 (registry uniqueness): after any attach and detach calls with
\* functions and bound methods, no two entries of the registry have the same
\* function and the same receiver.
C12_RegistryUnique ==
    NoNullInHistory =>
        \A i, j \in 1..Len(_invokables) :
            i # j => ~SameIdentity(_invokables[i], _invokables[j])

\* The set of identities obtained from the first n attach/detach calls by
\* reading attach as insertion and detach as removal.
RECURSIVE AbstractSet(_)
AbstractSet(n) ==
    IF n = 0 THEN {}
    ELSE IF history[n].op = "attach"
         THEN AbstractSet(n - 1) \cup {history[n].inv}
         ELSE AbstractSet(n - 1) \ {history[n].inv}

\* C13 (set semantics over any history): a dispatch that follows a sequence
\* of attach and detach calls on a channel that started empty calls each
\* member of the abstract set of that sequence exactly once and nothing else.
C13_SetSemantics ==
    (Returned /\ NoNullInHistory) =>
        \A inv \in Callables :
            CallCount(inv) = IF inv \in AbstractSet(Len(history)) THEN 1 ELSE 0

\* C14 (immediate visibility): the dispatch that directly follows an attach
\* calls the callable just attached, and the dispatch that directly follows
\* a detach does not call the callable just detached.
C14_ImmediateVisibility ==
    \A inv \in Callables :
        (Returned /\ NoNullInHistory) =>
            /\ EndsWith(<<Op("attach", inv)>>) => CallCount(inv) >= 1
            /\ EndsWith(<<Op("detach", inv)>>) => CallCount(inv) = 0

\* The methods a caller can subscribe on the receiver b2.
MethodsOfB == {p[1] : p \in {q \in PointerPairs : q[2] = ObjB}}

\* C15 (detach of one method leaves the others): after attach(m1, o);
\* attach(m2, o); detach(m1, o) on a fresh channel, with m1 # m2, the
\* registry holds (m2, o) and not (m1, o), and a dispatch calls m2 on o and
\* does not call m1 on o.
C15_DetachOneMethod ==
    \A m1, m2 \in MethodsOfB :
        LET s1 == invokable_member(m1, ObjB)
            s2 == invokable_member(m2, ObjB)
        IN  ( /\ m1 # m2
              /\ Returned
              /\ history = <<Op("attach", s1), Op("attach", s2), Op("detach", s1)>> )
            => /\ Stored(s2)
               /\ ~Stored(s1)
               /\ CallCount(s2) = 1
               /\ CallCount(s1) = 0

\* C16 (deterministic result): when a non-void channel with at least one
\* subscriber is invoked twice with the same argument and no attach or detach
\* in between, and both invokes return, they return the same value.
C16_DeterministicResult ==
    ( /\ Returned
      /\ retType = "int"
      /\ Len(_invokables) >= 1
      /\ previous.set
      /\ previous.args = args )
    => /\ result.init
       /\ result.val = previous.val

\* Two invokes with the same argument over two subscribers whose results
\* differ, so that the value depends on which of them runs last.
C16_Witness ==
    /\ Returned
    /\ retType = "int"
    /\ previous.set
    /\ previous.args = args
    /\ Len(_invokables) = 2
    /\ Subscriber(_invokables[1], args) # Subscriber(_invokables[2], args)
    /\ result.val = previous.val

\* C17 (invalid callable): calling an invokable whose function is null, or
\* a bound one whose receiver is absent, raises bad_function_call and runs
\* nothing; calling any other invokable runs the wrapped callable.  Read on
\* a dispatch over a registry that holds one invokable.
C17_InvalidCallable ==
    (Done /\ Len(_invokables) = 1) =>
        IF bad_function_call(_invokables[1])
        THEN outcome = "threw" /\ calls = <<>>
        ELSE outcome = "returned" /\ Len(calls) = 1 /\ calls[1].inv = _invokables[1]

\* attach and detach were only ever called with a receiver that exists.
NoNullReceiverInHistory ==
    \A i \in 1..Len(history) :
        history[i].inv.kind = "member" => history[i].inv.obj # 0

\* C18 (arguments preserved across subscribers): every subscriber run by one
\* dispatch received the value the caller passed, the same as the first
\* subscriber run, whatever an earlier subscriber did with its argument.
C18_ArgumentsPreserved ==
    NoNullReceiverInHistory =>
        \A k \in 1..Len(calls) :
            /\ calls[k].arg \in CallerArgs(argType)
            /\ calls[k].arg = calls[1].arg

\* The invokables built so far by attach and detach.
Constructed == {history[i].inv : i \in 1..Len(history)}

\* C19 (== and != complementary): for invokables a and b, a == b holds
\* exactly when function and receiver both match, a != b holds exactly when
\* one of them differs, and so a != b is the negation of a == b.
C19_EqNeComplementary ==
    NoNullInHistory =>
        \A a, b \in Constructed :
            /\ operator_eq(a, b) <=> SameIdentity(a, b)
            /\ operator_ne(a, b) <=> ~SameIdentity(a, b)
            /\ operator_ne(a, b) <=> ~operator_eq(a, b)

\* C20 (key equality agrees with ==): for a stored entry and an invokable
\* built by attach or detach, the key-equality of the registry is true exactly
\* when operator== is; in particular it is true for an entry and an invokable
\* of the same function and receiver.
C20_ComparatorAgreesWithEq ==
    NoNullInHistory =>
        \A i \in 1..Len(_invokables) :
            \A b \in Constructed :
                InvokableComparator(_invokables[i], b)
                    <=> operator_eq(_invokables[i], b)

\* C21 (attach of a new identity inserts): an attach of a callable whose
\* function or receiver differs from those of every stored entry stores it,
\* whatever the hashes of the stored entries.
C21_AttachInsertsNewIdentity ==
    [][\A inv \in Callables :
          ( /\ history' = Append(history, Op("attach", inv))
            /\ NoNullInHistory'
            /\ \A i \in 1..Len(_invokables) : ~SameIdentity(_invokables[i], inv) )
          => Stored(inv)']_vars

\* C22 (function key injective): two invokables have the same get_func_ptr
\* only if their function pointers have the same representation.
C22_FuncKeyInjective ==
    NoNullInHistory =>
        \A a, b \in Constructed :
            get_func_ptr(a) = get_func_ptr(b) => a.func = b.func

\* C23 (plain and bound never equal): an invokable of a free function and
\* one of a method bound to a receiver that exists are not equal, also when
\* their function keys are the same.
C23_PlainNeverEqualsBound ==
    \A a, b \in Constructed :
        (a.kind = "func" /\ b.kind = "member" /\ b.obj # 0) =>
            /\ ~operator_eq(a, b)
            /\ ~operator_eq(b, a)

\* Add2 and (Div, b2) have the same function key; the detach of one found no
\* equal entry and left the other stored.
C23_Witness ==
    /\ history = <<Op("attach", invokable_func(Add2)),
                   Op("detach", invokable_member(Div, ObjB))>>
    /\ get_func_ptr(invokable_func(Add2)) = get_func_ptr(invokable_member(Div, ObjB))
    /\ _invokables = <<invokable_func(Add2)>>

\* C24 (hash consistent with key equality): two invokables that the
\* registry's key-equality takes for equal have the same hash, and so have
\* two invokables of the same function and receiver.
C24_HashConsistent ==
    NoNullInHistory =>
        \A a, b \in Constructed :
            /\ InvokableComparator(a, b) => InvokableHasher(a) = InvokableHasher(b)
            /\ SameIdentity(a, b) => InvokableHasher(a) = InvokableHasher(b)

\* How many entries of the sequence s are inv.
Occurrences(s, inv) == Cardinality({i \in 1..Len(s) : s[i] = inv})

\* C25 (snapshot dispatch): a dispatch during which subscribers attached to
\* or detached from the channel has, when it returns, called exactly the
\* entries the registry held when it started, each once.
C25_SnapshotDispatch ==
    (Returned /\ NoNullInHistory) =>
        /\ Len(calls) = Len(snapshot)
        /\ \A inv \in Callables : CallCount(inv) = Occurrences(snapshot, inv)

\* C26 (invoke leaves the registry unchanged): when a call operator has
\* returned or has ended with a subscriber's error, and no subscriber touched
\* the channel, the registry is what it was when the call operator started.
C26_InvokeLeavesRegistry ==
    Done => _invokables = snapshot

\* The first of two subscribers ran and the second raised.
C26_Witness ==
    /\ Done
    /\ outcome = "threw"
    /\ Len(calls) = 1
    /\ Len(_invokables) = 2
    /\ _invokables = snapshot

\* Every invokable that can be built from the modelled pointers and
\* receivers.
Invokables ==
    LET funcs == FuncPtrs \cup {Sub, Div, Mod}
    IN  {invokable_func(f) : f \in funcs}
            \cup {invokable_member(f, o) : f \in funcs, o \in {0, ObjA, ObjB}}

\* What identifies an invokable to the registry: its key and its hash.
IdentityOf ==
    [inv \in Invokables |-> <<get_func_ptr(inv), get_obj_ptr(inv), get_hash(inv)>>]

Identity(inv) == IdentityOf[inv]

Identities(s) == [i \in 1..Len(s) |-> Identity(s[i])]

\* C27 (identity stable): a step of a dispatch leaves the key and the hash of
\* every stored invokable as they were; an attach or a detach leaves those of
\* every entry it does not insert or erase as they were.
C27_IdentityStable ==
    [][LET before == Identities(_invokables)
           after == Identities(_invokables')
       IN  \/ _invokables' = _invokables
           \/ after = before
           \/ /\ history' # history
              /\ \/ \E pos \in 1..Len(after) : erase(after, pos) = before
                 \/ \E pos \in 1..Len(before) : erase(before, pos) = after]_vars

\* An entry was attached, others were attached and detached, and the channel
\* was then invoked twice.
C27_Witness ==
    /\ Returned
    /\ previous.set
    /\ Len(history) = 3
    /\ history[1].op = "attach"
    /\ Stored(history[1].inv)
    /\ history[2].inv # history[1].inv
    /\ history[3].op = "detach"
    /\ history[3].inv # history[1].inv
    /\ CallCount(history[1].inv) >= 1

\* C28 (attach never removes): an attach leaves every stored entry stored
\* and adds at most one.
C28_AttachNeverRemoves ==
    [][( /\ Len(history') = Len(history) + 1
         /\ history'[Len(history')].op = "attach" )
       => \/ _invokables' = _invokables
          \/ \E pos \in 1..Len(_invokables') :
                erase(_invokables', pos) = _invokables]_vars

\* Three attaches, one of them of a function already attached, and three
\* entries stored.
C28_Witness ==
    /\ history = <<Op("attach", invokable_func(Mul2)),
                   Op("attach", invokable_func(Add2)),
                   Op("attach", invokable_func(Add2))>>
    /\ Len(_invokables) = 3
    /\ Stored(invokable_func(Mul2))

\* C29 (invoke runs to completion): every call operator that was entered,
\* on a channel no subscriber of which touches it, ends: it returns to the
\* caller or leaves with a subscriber's error.
C29_InvokeTerminates == (pc = "dispatch") ~> Done

\* A dispatch over three subscribers has returned, and one over three whose
\* last raised has ended with the error.
C29_Witness ==
    /\ Done
    /\ Len(_invokables) = 3
    /\ \/ outcome = "returned" /\ Len(calls) = 3
       \/ outcome = "threw" /\ Len(calls) = 2

====
